---- MODULE Spec2Model ----
(***************************************************************************)
(* A model of Booteja.cpp, a single-file command line tool that manages    *)
(* the UEFI boot variables (BootOrder, BootNext, Boot####) through the     *)
(* Windows firmware-variable API.                                          *)
(*                                                                         *)
(* Representation.                                                         *)
(*   BYTE      a number 0..255                                             *)
(*   UINT16    a number 0..65535 (also wchar_t, which is 16 bits wide on   *)
(*             the only platform the file builds for)                      *)
(*   UINT32    a record [lo, hi] of two 16-bit halves, value lo+65536*hi   *)
(*             (the full value does not fit the integers of TLC)           *)
(*   vector    a sequence; the C++ index i is the sequence index i+1       *)
(*   wstring   command-line text is a sequence of one-character strings;   *)
(*             a description or label is a sequence of UINT16 code units   *)
(***************************************************************************)
EXTENDS Integers, Sequences, FiniteSets, TLC

VARIABLES
    \* ---- codec harness (SpecCodec) ----
    cphase,     \* "rec" | "encoded" | "rt_rec" | "buf" | "decoded" | "rt_buf" | "off"
    rec,        \* the ParsedLoadOption handed to BuildLoadOption
    buf,        \* the byte buffer handed to ParseLoadOption
    enc,        \* the last result of BuildLoadOption
    dec,        \* the last result of ParseLoadOption: [ret, plo]
    \* ---- ID text harness (SpecId) ----
    idtext,     \* the command-line text of an ID
    idcmd,      \* the command that parsed it ("none" before)
    idres,      \* what that command's parse block produced: [ok, v]
    \* ---- the tool and the firmware variable store (Spec) ----
    store,      \* firmware variables: name -> [data, attrs]
    pc,         \* "idle" between commands, "list" inside cmd_list's loop
    cmd,        \* the last command run and its arguments
    rc,         \* its return code (-1 while it runs or before any)
    nwrites,    \* SetFirmwareEnvironmentVariableExW calls it issued
    lids,       \* cmd_list: the ids read from BootOrder
    li,         \* cmd_list: the loop index i
    lout,       \* cmd_list: the per-position reports written so far
    lshown      \* cmd_list: the BootCurrent/BootNext lines written

cvars == <<cphase, rec, buf, enc, dec>>
ivars == <<idtext, idcmd, idres>>
tvars == <<store, pc, cmd, rc, nwrites, lids, li, lout, lshown>>
vars == <<cphase, rec, buf, enc, dec, idtext, idcmd, idres,
          store, pc, cmd, rc, nwrites, lids, li, lout, lshown>>

-----------------------------------------------------------------------------
(* Bounds of the model *)

MaxDesc == 2        \* code units in a description handed to the encoder
MaxBlob == 2        \* bytes in a device path or optional data handed to it
MaxTail == 5        \* bytes after the 6-byte header in a buffer to decode
MaxIdK == 12        \* sampled 16-bit IDs in the ID text harness
MaxOrder == 3       \* IDs in an initial BootOrder

-----------------------------------------------------------------------------
(* Generic helpers *)

At(v, i) == v[i + 1]

SeqsUpTo(S, n) == UNION {[1..k -> S] : k \in 0..n}

RECURSIVE BitAnd(_, _)
BitAnd(a, b) ==
    IF a = 0 \/ b = 0 THEN 0
    ELSE (a % 2) * (b % 2) + 2 * BitAnd(a \div 2, b \div 2)

RECURSIVE BitOr(_, _)
BitOr(a, b) ==
    IF a = 0 THEN b
    ELSE IF b = 0 THEN a
    ELSE (IF a % 2 = 1 \/ b % 2 = 1 THEN 1 ELSE 0) + 2 * BitOr(a \div 2, b \div 2)

And32(x, y) == [lo |-> BitAnd(x.lo, y.lo), hi |-> BitAnd(x.hi, y.hi)]
Or32(x, y) == [lo |-> BitOr(x.lo, y.lo), hi |-> BitOr(x.hi, y.hi)]
Not32(x) == [lo |-> 65535 - x.lo, hi |-> 65535 - x.hi]

U32(lo, hi) == [lo |-> lo, hi |-> hi]

-----------------------------------------------------------------------------
(* Program constants *)

LOAD_OPTION_ACTIVE == U32(1, 0)
EFI_VARIABLE_NON_VOLATILE == 1
EFI_VARIABLE_BOOTSERVICE_ACCESS == 2
EFI_VARIABLE_RUNTIME_ACCESS == 4
g_varAttrsRW ==
    BitOr(BitOr(EFI_VARIABLE_NON_VOLATILE, EFI_VARIABLE_BOOTSERVICE_ACCESS),
          EFI_VARIABLE_RUNTIME_ACCESS)

-----------------------------------------------------------------------------
(* The load-option codec *)

\* struct ParsedLoadOption, value-initialised
EmptyPlo ==
    [Attributes |-> U32(0, 0), FilePathListLength |-> 0, Description |-> <<>>,
     DevicePath |-> <<>>, OptionalData |-> <<>>]

\* *reinterpret_cast<const UINT16*>(&v[i]) on the little-endian target
LoadU16(v, i) == At(v, i) + 256 * At(v, i + 1)

\* *reinterpret_cast<const UINT32*>(&v[i]) on the little-endian target
LoadU32(v, i) == U32(LoadU16(v, i), LoadU16(v, i + 2))

\* The while loop of ReadUcs2String: the string read and the index it stops at.
RECURSIVE ReadUcs2Loop(_, _, _)
ReadUcs2Loop(data, i, out) ==
    IF i + 1 < Len(data)
    THEN LET ch == BitOr(At(data, i), 256 * At(data, i + 1)) % 65536
         IN  IF ch = 0 THEN [str |-> out, i |-> i + 2]
             ELSE ReadUcs2Loop(data, i + 2, Append(out, ch))
    ELSE [str |-> out, i |-> i]

ReadUcs2String(data, start) ==
    LET r == ReadUcs2Loop(data, start, <<>>)
    IN  [str |-> r.str, nextOffset |-> IF r.i % 2 = 1 THEN r.i + 1 ELSE r.i]

\* A device path that does not fit: "else { return false; }"
TruncatedReturn_Accept(p1) == [ret |-> TRUE, plo |-> p1]
TruncatedReturn(p1) == [ret |-> FALSE, plo |-> p1]

\* bool ParseLoadOption(buf, plo): the return value and plo as it leaves it.
ParseLoadOption(b, plo) ==
    IF Len(b) < 6 THEN [ret |-> FALSE, plo |-> plo]
    ELSE LET attrs == LoadU32(b, 0)
             fpl == LoadU16(b, 4)
             s == ReadUcs2String(b, 6)
             offset == s.nextOffset
             p1 == [plo EXCEPT !.Attributes = attrs, !.FilePathListLength = fpl,
                               !.Description = s.str]
         IN  IF offset + fpl <= Len(b)
             THEN LET p2 == [p1 EXCEPT !.DevicePath = SubSeq(b, offset + 1, offset + fpl)]
                      off2 == offset + fpl
                  IN  [ret |-> TRUE,
                       plo |-> IF off2 <= Len(b)
                               THEN [p2 EXCEPT !.OptionalData = SubSeq(b, off2 + 1, Len(b))]
                               ELSE p2]
             ELSE TruncatedReturn(p1)

\* The lambdas push16 and push32 of BuildLoadOption (memcpy, little-endian).
Push16_BigEndian(out, v) == out \o <<(v \div 256) % 256, v % 256>>
Push16(out, v) == out \o <<v % 256, (v \div 256) % 256>>
Push32(out, v) == Push16(Push16(out, v.lo), v.hi)

RECURSIVE PushUnits(_, _)
PushUnits(out, s) ==
    IF s = <<>> THEN out ELSE PushUnits(Push16(out, Head(s) % 65536), Tail(s))

BuildLoadOption_DropOptional(plo) ==
    LET o1 == Push32(<<>>, plo.Attributes)
        o2 == Push16(o1, Len(plo.DevicePath) % 65536)
        o3 == PushUnits(o2, plo.Description)
        o4 == Push16(o3, 0)
    IN  o4 \o plo.DevicePath

BuildLoadOption(plo) ==
    LET o1 == Push32(<<>>, plo.Attributes)
        o2 == Push16(o1, Len(plo.DevicePath) % 65536)
        o3 == PushUnits(o2, plo.Description)
        o4 == Push16(o3, 0)
    IN  o4 \o plo.DevicePath \o plo.OptionalData

-----------------------------------------------------------------------------
(* Textual boot IDs *)

HexDigitChars ==
    <<"0", "1", "2", "3", "4", "5", "6", "7", "8", "9", "A", "B", "C", "D", "E", "F">>
LowerHexDigitChars ==
    <<"0", "1", "2", "3", "4", "5", "6", "7", "8", "9", "a", "b", "c", "d", "e", "f">>

IsHexDigit(c) ==
    \E k \in 1..16 : HexDigitChars[k] = c \/ LowerHexDigitChars[k] = c

HexValue(c) ==
    (CHOOSE k \in 1..16 : HexDigitChars[k] = c \/ LowerHexDigitChars[k] = c) - 1

\* ::iswspace, on the one white-space character of the model's texts
IsSpace(c) == c = " "

\* std::uppercase << std::hex << std::setw(4) << std::setfill(L'0') << id
Hex4(id) ==
    <<HexDigitChars[((id \div 4096) % 16) + 1], HexDigitChars[((id \div 256) % 16) + 1],
      HexDigitChars[((id \div 16) % 16) + 1], HexDigitChars[(id % 16) + 1]>>

\* The name of the variable of a boot entry: L"Boot" followed by Hex4(id)
BootVarName(id) == <<"B", "o", "o", "t">> \o Hex4(id)

\* if (tok.rfind(L"Boot", 0) == 0) tok = tok.substr(4);
StripBoot_Never(tok) == tok
StripBoot(tok) ==
    IF Len(tok) >= 4 /\ SubSeq(tok, 1, 4) = <<"B", "o", "o", "t">>
    THEN SubSeq(tok, 5, Len(tok))
    ELSE tok

RECURSIVE SkipSpaces(_)
SkipSpaces(t) == IF t # <<>> /\ IsSpace(Head(t)) THEN SkipSpaces(Tail(t)) ELSE t

\* The digits std::num_get accumulates: v is the value read so far, n the
\* number of digits. A value above 0xFFFF is kept as 65536: the callers only
\* test v > 0xFFFF, and a value that overflows unsigned sets failbit, which
\* the callers treat the same way.
RECURSIVE HexAccumulate(_, _, _)
HexAccumulate(t, v, n) ==
    IF t # <<>> /\ IsHexDigit(Head(t))
    THEN LET w == 16 * v + HexValue(Head(t))
         IN  HexAccumulate(Tail(t), IF w > 65535 THEN 65536 ELSE w, n + 1)
    ELSE [v |-> v, n |-> n]

\* hs << std::hex << tok; hs >> v   (texts without sign and without 0x)
HexExtract(tok) ==
    LET r == HexAccumulate(SkipSpaces(tok), 0, 0)
    IN  [ok |-> r.n > 0, v |-> r.v]

\* The block that turns the text of an ID into a UINT16 in cmd_select,
\* cmd_next, cmd_enable_disable and cmd_rename (the same text in each).
IdFromText(idhex) ==
    LET r == HexExtract(StripBoot(idhex))
    IN  IF ~r.ok \/ r.v > 65535 THEN [ok |-> FALSE, v |-> 0]
        ELSE [ok |-> TRUE, v |-> r.v % 65536]

\* tok.erase(std::remove_if(tok.begin(), tok.end(), ::iswspace), tok.end());
RemoveSpaces(tok) == SelectSeq(tok, LAMBDA c : ~IsSpace(c))

\* The body of cmd_order_set's loop for one token.
OrderTokenId(tok) ==
    LET r == HexExtract(StripBoot(RemoveSpaces(tok)))
    IN  IF ~r.ok \/ r.v > 65535 THEN [ok |-> FALSE, v |-> 0]
        ELSE [ok |-> TRUE, v |-> r.v % 65536]

-----------------------------------------------------------------------------
(* The firmware variable store and the registry accessors *)

BootOrderName == <<"B", "o", "o", "t", "O", "r", "d", "e", "r">>
BootNextName == <<"B", "o", "o", "t", "N", "e", "x", "t">>
BootCurrentName == <<"B", "o", "o", "t", "C", "u", "r", "r", "e", "n", "t">>

\* A variable the firmware does not hold
NoVar == [data |-> <<>>, attrs |-> 0]

\* ReadEfiVar: the bytes of the variable, empty when it does not exist. For a
\* value of at most 4096 bytes (every value of this model) the whole value is
\* returned whether the size probe reports the size or reports nothing and
\* the 4096-byte fallback buffer is used.
ReadEfiVar(st, name) ==
    IF name \in DOMAIN st THEN st[name].data ELSE <<>>

\* WriteEfiVar when SetFirmwareEnvironmentVariableExW succeeds: the store after.
WriteEfiVar(st, name, data, attrs) ==
    [n \in DOMAIN st \cup {name} |->
        IF n = name THEN [data |-> data, attrs |-> attrs] ELSE st[n]]

GetBootOrder(st) ==
    LET v == ReadEfiVar(st, BootOrderName)
    IN  IF Len(v) % 2 = 1 THEN <<>>
        ELSE [k \in 1..(Len(v) \div 2) |-> LoadU16(v, 2 * (k - 1))]

\* order.data(): the UINT16 elements as they lie in memory
RECURSIVE U16Bytes(_)
U16Bytes(ids) ==
    IF ids = <<>> THEN <<>> ELSE Push16(<<>>, Head(ids)) \o U16Bytes(Tail(ids))

RECURSIVE Dedup(_, _)
Dedup(ids, seen) ==
    IF ids = <<>> THEN <<>>
    ELSE IF Head(ids) \in seen THEN Dedup(Tail(ids), seen)
    ELSE <<Head(ids)>> \o Dedup(Tail(ids), seen \cup {Head(ids)})

SetBootOrder_Dedup(st, order) ==
    WriteEfiVar(st, BootOrderName, U16Bytes(Dedup(order, {})), g_varAttrsRW)

SetBootOrder(st, order) ==
    WriteEfiVar(st, BootOrderName, U16Bytes(order), g_varAttrsRW)

ReadBootEntry(st, id, plo) ==
    LET data == ReadEfiVar(st, BootVarName(id))
    IN  IF data = <<>> THEN [ret |-> FALSE, plo |-> plo]
        ELSE ParseLoadOption(data, plo)

WriteBootEntry(st, id, plo) ==
    WriteEfiVar(st, BootVarName(id), BuildLoadOption(plo), g_varAttrsRW)

-----------------------------------------------------------------------------
(* The commands *)

\* std::find(order.begin(), order.end(), target) - order.begin()
Find_AbsentIsFront(order, target) ==
    IF \E k \in 1..Len(order) : order[k] = target
    THEN (CHOOSE k \in 1..Len(order) :
             order[k] = target /\ \A j \in 1..(k - 1) : order[j] # target) - 1
    ELSE 0

Find(order, target) ==
    IF \E k \in 1..Len(order) : order[k] = target
    THEN (CHOOSE k \in 1..Len(order) :
             order[k] = target /\ \A j \in 1..(k - 1) : order[j] # target) - 1
    ELSE Len(order)

\* std::rotate(first, middle, last) on the positions of s
Rotate_Swap(s, first, middle, last) ==
    [k \in 1..Len(s) |->
        IF k = first + 1 THEN s[middle + 1] ELSE IF k = middle + 1 THEN s[first + 1] ELSE s[k]]
Rotate(s, first, middle, last) ==
    SubSeq(s, 1, first) \o SubSeq(s, middle + 1, last)
        \o SubSeq(s, first + 1, middle) \o SubSeq(s, last + 1, Len(s))

\* The tokens the loop "while (std::getline(ss, tok, L','))" sees: getline
\* fails, and the loop ends, once nothing is left of the text.
RECURSIVE GetLineTokens(_)
GetLineTokens(csv) ==
    IF csv = <<>> THEN <<>>
    ELSE IF \E k \in 1..Len(csv) : csv[k] = ","
    THEN LET k == CHOOSE i \in 1..Len(csv) :
                      csv[i] = "," /\ \A j \in 1..(i - 1) : csv[j] # ","
         IN  <<SubSeq(csv, 1, k - 1)>> \o GetLineTokens(SubSeq(csv, k + 1, Len(csv)))
    ELSE <<csv>>

\* What a command that is not cmd_list leaves of cmd_list's locals and output
NoListing == lids' = <<>> /\ li' = 0 /\ lout' = <<>> /\ lshown' = <<>>

\* A return before any write
Return(code) == rc' = code /\ nwrites' = 0 /\ store' = store

\* One call of WriteEfiVar, which the firmware accepts (ok) or refuses
WriteOrReturn(ok, st, failCode) ==
    /\ nwrites' = 1
    /\ IF ok THEN store' = st /\ rc' = 0 ELSE store' = store /\ rc' = failCode

cmd_order_set(csv, ok) ==
    LET toks == GetLineTokens(csv)
        ids == [k \in 1..Len(toks) |-> OrderTokenId(toks[k])]
        newOrder == [k \in 1..Len(toks) |-> ids[k].v]
    IN  /\ pc = "idle"
        /\ cmd' = [op |-> "order_set", text |-> csv, label |-> <<>>, enable |-> FALSE]
        /\ IF \E k \in 1..Len(toks) : ~ids[k].ok THEN Return(2)
           ELSE IF newOrder = <<>> THEN Return(2)
           ELSE WriteOrReturn(ok, SetBootOrder(store, newOrder), 3)
        /\ NoListing
        /\ UNCHANGED <<pc, cvars, ivars>>

cmd_select(idhex, ok) ==
    LET order == GetBootOrder(store)
        p == IdFromText(idhex)
        it == Find(order, p.v)
    IN  /\ pc = "idle"
        /\ cmd' = [op |-> "select", text |-> idhex, label |-> <<>>, enable |-> FALSE]
        /\ IF order = <<>> THEN Return(1)
           ELSE IF ~p.ok THEN Return(2)
           ELSE IF it = Len(order) THEN Return(3)
           ELSE WriteOrReturn(ok, SetBootOrder(store, Rotate(order, 0, it, it + 1)), 4)
        /\ NoListing
        /\ UNCHANGED <<pc, cvars, ivars>>

cmd_next(idhex, ok) ==
    LET p == IdFromText(idhex)
    IN  /\ pc = "idle"
        /\ cmd' = [op |-> "next", text |-> idhex, label |-> <<>>, enable |-> FALSE]
        /\ IF ~p.ok THEN Return(2)
           ELSE WriteOrReturn(ok, WriteEfiVar(store, BootNextName, Push16(<<>>, p.v),
                                              g_varAttrsRW), 3)
        /\ NoListing
        /\ UNCHANGED <<pc, cvars, ivars>>

\* if (enable) plo.Attributes |= LOAD_OPTION_ACTIVE; else plo.Attributes &= ~LOAD_OPTION_ACTIVE;
SetActiveBit_Overwrite(attrs, enable) ==
    IF enable THEN LOAD_OPTION_ACTIVE ELSE U32(0, 0)

SetActiveBit(attrs, enable) ==
    IF enable THEN Or32(attrs, LOAD_OPTION_ACTIVE) ELSE And32(attrs, Not32(LOAD_OPTION_ACTIVE))

cmd_enable_disable(idhex, enable, ok) ==
    LET p == IdFromText(idhex)
        r == ReadBootEntry(store, p.v, EmptyPlo)
        plo == [r.plo EXCEPT !.Attributes = SetActiveBit(@, enable)]
    IN  /\ pc = "idle"
        /\ cmd' = [op |-> "enable_disable", text |-> idhex, label |-> <<>>, enable |-> enable]
        /\ IF ~p.ok THEN Return(2)
           ELSE IF ~r.ret THEN Return(3)
           ELSE WriteOrReturn(ok, WriteBootEntry(store, p.v, plo), 4)
        /\ NoListing
        /\ UNCHANGED <<pc, cvars, ivars>>

\* ParsedLoadOption n = plo; n.Description = newLabel;
Relabel_Fresh(plo, newLabel) ==
    [EmptyPlo EXCEPT !.Attributes = plo.Attributes, !.Description = newLabel]

Relabel(plo, newLabel) == [plo EXCEPT !.Description = newLabel]

cmd_rename(idhex, newLabel, ok) ==
    LET p == IdFromText(idhex)
        r == ReadBootEntry(store, p.v, EmptyPlo)
    IN  /\ pc = "idle"
        /\ cmd' = [op |-> "rename", text |-> idhex, label |-> newLabel, enable |-> FALSE]
        /\ IF ~p.ok THEN Return(2)
           ELSE IF ~r.ret THEN Return(3)
           ELSE WriteOrReturn(ok, WriteBootEntry(store, p.v, Relabel(r.plo, newLabel)), 4)
        /\ NoListing
        /\ UNCHANGED <<pc, cvars, ivars>>

\* The lambda showU16 of cmd_list: the line it writes, if any
showU16(st, nm) ==
    LET v == ReadEfiVar(st, nm)
    IN  IF Len(v) >= 2 THEN <<[name |-> nm, val |-> LoadU16(v, 0)]>> ELSE <<>>

\* cmd_list up to its loop
cmd_list_begin ==
    LET order == ReadEfiVar(store, BootOrderName)
        n == Len(order) \div 2
    IN  /\ pc = "idle"
        /\ cmd' = [op |-> "list", text |-> <<>>, label |-> <<>>, enable |-> FALSE]
        /\ nwrites' = 0
        /\ store' = store
        /\ lout' = <<>>
        /\ li' = 0
        /\ IF order = <<>> \/ Len(order) % 2 = 1
           THEN rc' = 1 /\ pc' = "idle" /\ lids' = <<>> /\ lshown' = <<>>
           ELSE /\ rc' = -1
                /\ pc' = "list"
                /\ lids' = [k \in 1..n |-> LoadU16(order, 2 * (k - 1))]
                /\ lshown' = showU16(store, BootCurrentName) \o showU16(store, BootNextName)
        /\ UNCHANGED <<cvars, ivars>>

\* What PrintEntry writes for position index of total
PrintEntry(id, index, total, plo) ==
    [index |-> index, total |-> total, id |-> id, kind |-> "entry", plo |-> plo]

\* The line "[index/total] Boot####: (unreadable)"
PrintUnreadable(id, index, total) ==
    [index |-> index, total |-> total, id |-> id, kind |-> "unreadable", plo |-> EmptyPlo]

\* One pass of cmd_list's loop
cmd_list_step_Abort ==
    LET n == Len(lids)
        id == lids[li + 1]
        r == ReadBootEntry(store, id, EmptyPlo)
    IN  /\ pc = "list"
        /\ li < n
        /\ IF r.ret
           THEN lout' = Append(lout, PrintEntry(id, li + 1, n, r.plo)) /\ li' = li + 1
           ELSE lout' = lout /\ li' = n
        /\ UNCHANGED <<store, pc, cmd, rc, nwrites, lids, lshown, cvars, ivars>>

cmd_list_step ==
    LET n == Len(lids)
        id == lids[li + 1]
        r == ReadBootEntry(store, id, EmptyPlo)
    IN  /\ pc = "list"
        /\ li < n
        /\ lout' = Append(lout, IF r.ret THEN PrintEntry(id, li + 1, n, r.plo)
                                ELSE PrintUnreadable(id, li + 1, n))
        /\ li' = li + 1
        /\ UNCHANGED <<store, pc, cmd, rc, nwrites, lids, lshown, cvars, ivars>>

\* cmd_list after its loop: return 0
cmd_list_end ==
    /\ pc = "list"
    /\ li = Len(lids)
    /\ rc' = 0
    /\ pc' = "idle"
    /\ UNCHANGED <<store, cmd, nwrites, lids, li, lout, lshown, cvars, ivars>>

-----------------------------------------------------------------------------
(* SpecCodec: the codec applied to inputs drawn from bounded sets *)

RecAttrs == {U32(9, 0), U32(8, 32768), U32(65535, 65535)}
DescUnits == {0, 65, 256}
BlobBytes == {0, 255}

Records ==
    [Attributes : RecAttrs, FilePathListLength : {0, 7},
     Description : SeqsUpTo(DescUnits, MaxDesc),
     DevicePath : SeqsUpTo(BlobBytes, MaxBlob),
     OptionalData : SeqsUpTo(BlobBytes, MaxBlob)]

TailBytes == {0, 1, 65}
HdrAttrs == {<<9, 0, 0, 0>>, <<0, 0, 0, 128>>}
HdrLens == {<<0, 0>>, <<1, 0>>, <<2, 0>>, <<0, 1>>}

Buffers ==
    SeqsUpTo(TailBytes, 5)
    \cup {a \o l \o t : a \in HdrAttrs, l \in HdrLens, t \in SeqsUpTo(TailBytes, MaxTail)}

NoDec == [ret |-> FALSE, plo |-> EmptyPlo]

CodecOff ==
    /\ cphase = "off" /\ rec = EmptyPlo /\ buf = <<>> /\ enc = <<>> /\ dec = NoDec

IdOff == idtext = <<>> /\ idcmd = "none" /\ idres = [ok |-> FALSE, v |-> 0]

NoCmd == [op |-> "none", text |-> <<>>, label |-> <<>>, enable |-> FALSE]

ToolOff ==
    /\ store = <<>> /\ pc = "off" /\ cmd = NoCmd /\ rc = -1 /\ nwrites = 0
    /\ lids = <<>> /\ li = 0 /\ lout = <<>> /\ lshown = <<>>

CodecInit ==
    /\ enc = <<>>
    /\ dec = NoDec
    /\ \/ cphase = "rec" /\ rec \in Records /\ buf = <<>>
       \/ cphase = "buf" /\ buf \in Buffers /\ rec = EmptyPlo
    /\ IdOff
    /\ ToolOff

\* encode(x)
EncodeRec ==
    /\ cphase = "rec"
    /\ enc' = BuildLoadOption(rec)
    /\ cphase' = "encoded"
    /\ UNCHANGED <<rec, buf, dec, ivars, tvars>>

\* decode(encode(x))
DecodeEnc ==
    /\ cphase = "encoded"
    /\ dec' = ParseLoadOption(enc, EmptyPlo)
    /\ cphase' = "rt_rec"
    /\ UNCHANGED <<rec, buf, enc, ivars, tvars>>

\* decode(bytes)
DecodeBuf ==
    /\ cphase = "buf"
    /\ dec' = ParseLoadOption(buf, EmptyPlo)
    /\ cphase' = "decoded"
    /\ UNCHANGED <<rec, buf, enc, ivars, tvars>>

\* encode(decode(bytes)), when the decode succeeded
EncodeDec ==
    /\ cphase = "decoded"
    /\ dec.ret
    /\ enc' = BuildLoadOption(dec.plo)
    /\ cphase' = "rt_buf"
    /\ UNCHANGED <<rec, buf, dec, ivars, tvars>>

CodecNext == EncodeRec \/ DecodeEnc \/ DecodeBuf \/ EncodeDec

SpecCodec == CodecInit /\ [][CodecNext]_vars

-----------------------------------------------------------------------------
(* Spec: the tool run command after command on a firmware variable store *)

OrderIds == {1, 2, 3}

\* The BootOrder variable at the start: absent, a list of IDs, or an odd
\* number of bytes.
InitOrderData ==
    {U16Bytes(o) : o \in SeqsUpTo(OrderIds, MaxOrder)} \cup {<<1, 0, 2>>}

EntryA ==
    [Attributes |-> U32(9, 0), FilePathListLength |-> 2, Description |-> <<65>>,
     DevicePath |-> <<4, 1>>, OptionalData |-> <<255>>]

EntryB ==
    [Attributes |-> U32(65534, 65535), FilePathListLength |-> 0,
     Description |-> <<66, 256>>, DevicePath |-> <<>>, OptionalData |-> <<>>]

\* Boot0001 at the start: absent, well formed, shorter than its header,
\* truncated in its device path, or without a terminator of its description.
InitEntry1 ==
    {<<>>,
     BuildLoadOption(EntryA),
     <<9, 0, 0, 0, 0>>,
     <<1, 0, 0, 0, 4, 0, 65, 0, 0, 0, 7>>,
     <<8, 0, 0, 128, 1, 0, 65, 0, 7>>}

\* Boot0002 at the start
InitEntry2 == {BuildLoadOption(EntryB)}

VarOf(data) == IF data = <<>> THEN NoVar ELSE [data |-> data, attrs |-> g_varAttrsRW]

InitStore(o, e1, e2) ==
    [n \in {BootOrderName, BootNextName, BootCurrentName,
            BootVarName(1), BootVarName(2), BootVarName(3)} |->
        IF n = BootOrderName THEN VarOf(o)
        ELSE IF n = BootCurrentName THEN [data |-> <<1, 0>>, attrs |-> 6]
        ELSE IF n = BootVarName(1) THEN VarOf(e1)
        ELSE IF n = BootVarName(2) THEN VarOf(e2)
        ELSE NoVar]

BadText == <<"g">>

SelectTexts == {Hex4(2), BootVarName(1), Hex4(3), Hex4(153), BadText}
NextTexts == {BootVarName(2), BadText}
ToggleTexts == {Hex4(1), BootVarName(2), Hex4(3), <<>>}
RenameTexts == {Hex4(1), BootVarName(2), Hex4(3), BadText}
Labels == {<<>>, <<78, 256>>}

RECURSIVE JoinCsv(_)
JoinCsv(toks) ==
    IF toks = <<>> THEN <<>>
    ELSE IF Len(toks) = 1 THEN toks[1]
    ELSE toks[1] \o <<",">> \o JoinCsv(Tail(toks))

OrderCsvs ==
    {JoinCsv(<<Hex4(3), Hex4(1), <<>>, Hex4(2)>>),
     JoinCsv(<<Hex4(3), Hex4(1)>>),
     <<>>,
     JoinCsv(<<Hex4(2), Hex4(2), Hex4(1)>>),
     JoinCsv(<<BootVarName(1), <<" ">> \o Hex4(3) \o <<" ">>>>),
     JoinCsv(<<Hex4(1), <<"1", "0", "0", "0", "0">>>>),
     JoinCsv(<<Hex4(2), <<>>>>)}

\* The tool before a command, on one of the given stores
ToolInit(orders, entries1, entries2) ==
    /\ \E o \in orders, e1 \in entries1, e2 \in entries2 : store = InitStore(o, e1, e2)
    /\ pc = "idle"
    /\ cmd = NoCmd
    /\ rc = -1
    /\ nwrites = 0
    /\ lids = <<>> /\ li = 0 /\ lout = <<>> /\ lshown = <<>>
    /\ CodecOff
    /\ IdOff

OrderSet == \E csv \in OrderCsvs, ok \in BOOLEAN : cmd_order_set(csv, ok)
Select == \E t \in SelectTexts, ok \in BOOLEAN : cmd_select(t, ok)
SetNext == \E t \in NextTexts, ok \in BOOLEAN : cmd_next(t, ok)
EnableDisable ==
    \E t \in ToggleTexts, enable \in BOOLEAN, ok \in BOOLEAN : cmd_enable_disable(t, enable, ok)
Rename == \E t \in RenameTexts, l \in Labels, ok \in BOOLEAN : cmd_rename(t, l, ok)

\* SpecOrder: the commands that write BootOrder and BootNext, from every
\* initial BootOrder
OrderInit == ToolInit(InitOrderData, {BuildLoadOption(EntryA)}, InitEntry2)
OrderNext == OrderSet \/ Select \/ SetNext
SpecOrder == OrderInit /\ [][OrderNext]_vars

\* SpecEntry: the commands that rewrite a boot entry, from every initial
\* Boot0001 and Boot0002
EntryInit == ToolInit({U16Bytes(<<2, 1, 3>>)}, InitEntry1, InitEntry2 \cup {<<>>})
EntryNext == EnableDisable \/ Rename
SpecEntry == EntryInit /\ [][EntryNext]_vars

\* SpecList: cmd_list, its loop taken one pass at a time, from every initial
\* BootOrder and Boot0001; between two listings an entry may be relabelled.
ListInit == ToolInit(InitOrderData, InitEntry1, InitEntry2)
ListRelabel == \E ok \in BOOLEAN : cmd_rename(Hex4(1), <<78, 256>>, ok)
ListNext == cmd_list_begin \/ cmd_list_step \/ cmd_list_end \/ ListRelabel
SpecList == ListInit /\ [][ListNext]_vars

\* cmd_list is straight-line code in one thread: once called it runs on.
LiveList == SpecList /\ WF_vars(cmd_list_step) /\ WF_vars(cmd_list_end)

-----------------------------------------------------------------------------
(* Properties of the codec, for SpecCodec *)

\* The record is one the round-trip property speaks of: a non-empty
\* description without a zero code unit, a device path of at most 65535 bytes.
Encodable(x) ==
    /\ Len(x.Description) >= 1
    /\ \A k \in 1..Len(x.Description) : x.Description[k] # 0
    /\ Len(x.DevicePath) <= 65535

\* C1: for every record with a non-empty description free of zero code units,
\* decoding the encoding succeeds and gives back the attributes, description,
\* device path and optional data of the record.
C1_RoundTripRecord ==
    (cphase = "rt_rec" /\ Encodable(rec)) =>
        /\ dec.ret
        /\ dec.plo.Attributes = rec.Attributes
        /\ dec.plo.Description = rec.Description
        /\ dec.plo.DevicePath = rec.DevicePath
        /\ dec.plo.OptionalData = rec.OptionalData

C1_Witness ==
    /\ cphase = "rt_rec" /\ Encodable(rec) /\ dec.ret
    /\ rec.Attributes = U32(8, 32768)
    /\ Len(rec.Description) > 1
    /\ rec.DevicePath # <<>> /\ rec.OptionalData # <<>>

\* Some 16-bit unit at an even offset from byte 6 on, wholly inside b, is zero.
HasTerminator(b) ==
    \E k \in 0..((Len(b) - 8) \div 2) : b[7 + 2 * k] = 0 /\ b[8 + 2 * k] = 0

\* C2 as stated: every buffer the decoder accepts is reproduced byte for byte
\* by encoding what was decoded.
C2_RoundTripBytesAnyAccepted == cphase = "rt_buf" => enc = buf

\* C2 amended: every accepted buffer whose description is closed by a zero
\* code unit inside the buffer is reproduced byte for byte, and the length
\* field written is the length of the decoded device path.
C2_RoundTripBytesTerminated ==
    (cphase = "rt_buf" /\ HasTerminator(buf)) =>
        /\ enc = buf
        /\ enc[5] + 256 * enc[6] = Len(dec.plo.DevicePath)

C2_Witness ==
    /\ cphase = "rt_buf" /\ HasTerminator(buf)
    /\ dec.plo.Description # <<>> /\ dec.plo.DevicePath # <<>>

\* The byte offset just after the description of a buffer of 6 bytes or more:
\* after the first zero unit, or after the last whole unit when there is none.
DescEnd(b) ==
    LET ks == {k \in 0..((Len(b) - 8) \div 2) : b[7 + 2 * k] = 0 /\ b[8 + 2 * k] = 0}
    IN  IF ks = {} THEN 6 + 2 * ((Len(b) - 6) \div 2)
        ELSE 8 + 2 * (CHOOSE k \in ks : \A j \in ks : k <= j)

IsTooShort(b) == Len(b) < 6

\* The declared device-path length exceeds the bytes left after the description.
IsTruncated(b) == Len(b) >= 6 /\ b[5] + 256 * b[6] > Len(b) - DescEnd(b)

\* C3 as stated: a too-short buffer and a truncated buffer are both rejected,
\* and with error kinds that differ: what decode returns for a buffer shorter
\* than 6 bytes is not what it returns for a truncated one.
C3_DistinctErrorKinds ==
    (cphase = "decoded" /\ IsTooShort(buf)) =>
        /\ ~dec.ret
        /\ \A b2 \in Buffers :
              IsTruncated(b2) => ParseLoadOption(b2, EmptyPlo).ret # dec.ret

\* C3 amended: a buffer shorter than 6 bytes is rejected and a buffer whose
\* declared device-path length exceeds the bytes after the description is
\* rejected, both by the one return value false; no record is handed on.
C3_RejectsMalformed ==
    /\ (cphase = "decoded" /\ (IsTooShort(buf) \/ IsTruncated(buf))) => dec.ret = FALSE
    /\ cphase = "rt_buf" => ~(IsTooShort(buf) \/ IsTruncated(buf))

C3_Witness ==
    /\ cphase = "decoded" /\ IsTruncated(buf) /\ ~dec.ret
    /\ dec.plo.Description # <<>>
    /\ HasTerminator(buf)

-----------------------------------------------------------------------------
(* SpecId: the ID parsing of each command applied to texts from a bounded set *)

IdSample == {(k * 5461) % 65536 : k \in 0..MaxIdK} \cup {1, 11, 65535}

Hex4Lower(id) ==
    <<LowerHexDigitChars[((id \div 4096) % 16) + 1], LowerHexDigitChars[((id \div 256) % 16) + 1],
      LowerHexDigitChars[((id \div 16) % 16) + 1], LowerHexDigitChars[(id % 16) + 1]>>

\* "Boot" in every letter case
BootCases ==
    {<<b, o1, o2, t>> : b \in {"B", "b"}, o1 \in {"O", "o"}, o2 \in {"O", "o"}, t \in {"T", "t"}}

IdDigitForms(n) == {Hex4(n), Hex4Lower(n)}

IdTexts ==
    {p \o d : p \in BootCases \cup {<<>>}, d \in UNION {IdDigitForms(n) : n \in IdSample}}

IdInit ==
    /\ idtext \in IdTexts
    /\ idcmd = "none"
    /\ idres = [ok |-> FALSE, v |-> 0]
    /\ CodecOff
    /\ ToolOff

IdSelect ==
    /\ idcmd = "none"
    /\ idcmd' = "select"
    /\ idres' = IdFromText(idtext)
    /\ UNCHANGED <<idtext, cvars, tvars>>

IdNext ==
    /\ idcmd = "none"
    /\ idcmd' = "next"
    /\ idres' = IdFromText(idtext)
    /\ UNCHANGED <<idtext, cvars, tvars>>

IdEnableDisable ==
    /\ idcmd = "none"
    /\ idcmd' = "enable_disable"
    /\ idres' = IdFromText(idtext)
    /\ UNCHANGED <<idtext, cvars, tvars>>

IdRename ==
    /\ idcmd = "none"
    /\ idcmd' = "rename"
    /\ idres' = IdFromText(idtext)
    /\ UNCHANGED <<idtext, cvars, tvars>>

IdOrderSet ==
    /\ idcmd = "none"
    /\ idcmd' = "order_set"
    /\ idres' = OrderTokenId(idtext)
    /\ UNCHANGED <<idtext, cvars, tvars>>

IdStep == IdSelect \/ IdNext \/ IdEnableDisable \/ IdRename \/ IdOrderSet

SpecId == IdInit /\ [][IdStep]_vars

-----------------------------------------------------------------------------
(* Properties of ID texts, for SpecId *)

\* C9 as stated: the 4 hex digits of n, bare or behind "Boot" in any letter
\* case, are parsed to n by every command that takes an ID.
C9_AnyCasePrefix ==
    idcmd # "none" =>
        \A n \in IdSample : \A p \in BootCases \cup {<<>>} : \A d \in IdDigitForms(n) :
            idtext = p \o d => (idres.ok /\ idres.v = n)

\* C9 amended: the 4 hex digits of n, bare or behind the prefix "Boot" in
\* exactly this letter case, are parsed to n by every command that takes an
\* ID; a prefix in any other letter case is not stripped, and the text is
\* then parsed as the hex digit it starts with, B.
C9_ExactCasePrefix ==
    idcmd # "none" =>
        \A n \in IdSample : \A d \in IdDigitForms(n) :
            /\ \A p \in {<<>>, <<"B", "o", "o", "t">>} :
                  idtext = p \o d => (idres.ok /\ idres.v = n)
            /\ \A p \in BootCases \ {<<"B", "o", "o", "t">>} :
                  idtext = p \o d => (idres.ok /\ idres.v = 11)

C9_Witness ==
    /\ idcmd = "order_set"
    /\ idtext = <<"B", "o", "o", "t">> \o Hex4(43688)
    /\ idres = [ok |-> TRUE, v |-> 43688]

-----------------------------------------------------------------------------
(* Properties of the commands *)

\* The two texts of an ID that every command reads as that ID
TextsOf(id) == {Hex4(id), BootVarName(id)}

\* The IDs the BootOrder variable holds, read two bytes at a time
StoredOrder(st) ==
    LET d == st[BootOrderName].data
    IN  [k \in 1..(Len(d) \div 2) |-> d[2 * k - 1] + 256 * d[2 * k]]

EvenOrder(st) == Len(st[BootOrderName].data) % 2 = 0

Occurs(id, order) == \E k \in 1..Len(order) : order[k] = id

\* new is old with its first id moved to the front and nothing else moved
MovedToFront(id, old, new) ==
    /\ Len(new) = Len(old)
    /\ new[1] = id
    /\ \E k \in 1..Len(old) :
          /\ old[k] = id
          /\ \A j \in 1..(k - 1) : old[j] # id /\ new[j + 1] = old[j]
          /\ \A j \in (k + 1)..Len(old) : new[j] = old[j]

\* C4 (SpecOrder): after a successful select(id) the stored
\* order has id first, then the other elements of the old order in their old
\* relative order, and the old length.
C4_SelectMovesToFront ==
    [][\A id \in OrderIds \cup {153} :
          (cmd'.op = "select" /\ cmd'.text \in TextsOf(id) /\ rc' = 0) =>
              /\ Occurs(id, StoredOrder(store))
              /\ MovedToFront(id, StoredOrder(store), StoredOrder(store'))]_vars

C4_Witness ==
    /\ cmd.op = "select" /\ cmd.text = Hex4(2) /\ rc = 0 /\ nwrites = 1
    /\ StoredOrder(store) = <<2, 1, 3>>

\* C5 as stated (SpecOrder): whatever the stored order, select of an ID that
\* does not occur in it fails with "ID not found in BootOrder" (return 3),
\* writes nothing and leaves the store as it was.
C5_AbsentIdAnyOrder ==
    [][\A id \in OrderIds \cup {153} :
          (cmd'.op = "select" /\ cmd'.text \in TextsOf(id) /\ EvenOrder(store)
           /\ ~Occurs(id, StoredOrder(store))) =>
              (rc' = 3 /\ nwrites' = 0 /\ store' = store)]_vars

\* C5 amended (SpecOrder): when the stored order holds at least one ID, select
\* of an ID that does not occur in it returns 3, writes nothing and leaves the
\* store as it was; when the stored order is empty it does the same but
\* returns 1.
C5_AbsentIdNonEmptyOrder ==
    [][\A id \in OrderIds \cup {153} :
          (cmd'.op = "select" /\ cmd'.text \in TextsOf(id) /\ EvenOrder(store)
           /\ ~Occurs(id, StoredOrder(store))) =>
              /\ nwrites' = 0
              /\ store' = store
              /\ rc' = IF StoredOrder(store) = <<>> THEN 1 ELSE 3]_vars

C5_Witness ==
    /\ cmd.op = "select" /\ cmd.text = Hex4(153) /\ rc = 3 /\ nwrites = 0
    /\ StoredOrder(store) = <<1, 2, 3>>

WithActiveBit(data, enabled) ==
    <<data[1] - (data[1] % 2) + (IF enabled THEN 1 ELSE 0), data[2], data[3], data[4]>>

\* C7 (SpecEntry): after a successful setActive(id, enabled) on an entry that
\* reads and decodes, the stored attributes are the old ones with bit 0 equal
\* to enabled and the 31 other bits as they were; on an absent entry the
\* command returns 3 and writes nothing.
C7_SetActiveOnlyActiveBit ==
    [][\A id \in OrderIds :
          (cmd'.op = "enable_disable" /\ cmd'.text \in TextsOf(id)) =>
              LET old == store[BootVarName(id)].data
                  new == store'[BootVarName(id)].data
              IN  /\ old = <<>> => (rc' = 3 /\ nwrites' = 0 /\ store' = store)
                  /\ rc' = 0 =>
                        /\ ReadBootEntry(store, id, EmptyPlo).ret
                        /\ SubSeq(new, 1, 4) = WithActiveBit(old, cmd'.enable)]_vars

C7_Witness ==
    /\ cmd.op = "enable_disable" /\ ~cmd.enable /\ cmd.text = Hex4(1) /\ rc = 0
    /\ SubSeq(store[BootVarName(1)].data, 1, 4) = <<8, 0, 0, 0>>

\* C8 (SpecEntry): after a successful rename(id, newLabel) the stored entry
\* decodes to the new label with the attributes, device path and optional
\* data it decoded to before, and no other variable has changed.
C8_RenameOnlyDescription ==
    [][\A id \in OrderIds :
          (cmd'.op = "rename" /\ cmd'.text \in TextsOf(id) /\ rc' = 0) =>
              LET old == ParseLoadOption(store[BootVarName(id)].data, EmptyPlo)
                  new == ParseLoadOption(store'[BootVarName(id)].data, EmptyPlo)
              IN  /\ old.ret /\ new.ret
                  /\ new.plo.Description = cmd'.label
                  /\ new.plo.Attributes = old.plo.Attributes
                  /\ new.plo.DevicePath = old.plo.DevicePath
                  /\ new.plo.OptionalData = old.plo.OptionalData
                  /\ SubSeq(store'[BootVarName(id)].data, 1, 4)
                        = SubSeq(store[BootVarName(id)].data, 1, 4)
                  /\ DOMAIN store' = DOMAIN store
                  /\ \A n \in DOMAIN store \ {BootVarName(id)} : store'[n] = store[n]]_vars

C8_Witness ==
    /\ cmd.op = "rename" /\ cmd.text = Hex4(1) /\ cmd.label = <<78, 256>> /\ rc = 0
    /\ LET e == ParseLoadOption(store[BootVarName(1)].data, EmptyPlo)
       IN  /\ e.ret /\ e.plo.Description = <<78, 256>>
           /\ e.plo.DevicePath = <<4, 1>> /\ e.plo.OptionalData = <<255>>
           /\ e.plo.Attributes = U32(9, 0)

\* The entry of id is there and is neither too short nor truncated
Decodable(st, id) ==
    LET d == st[BootVarName(id)].data
    IN  d # <<>> /\ ~IsTooShort(d) /\ ~IsTruncated(d)

\* The k-th report is the one due for position k of the stored order
ReportDue(k) ==
    LET order == StoredOrder(store)
    IN  /\ lout[k].index = k
        /\ lout[k].total = Len(order)
        /\ lout[k].id = order[k]
        /\ lout[k].kind = IF Decodable(store, order[k]) THEN "entry" ELSE "unreadable"

\* While list runs it has written one report for each position passed.
ListSoFar ==
    pc = "list" => (li <= Len(lids) /\ Len(lout) = li /\ \A k \in 1..li : ReportDue(k))

\* When list has returned 0 it has written one report for each position.
ListDone ==
    (cmd.op = "list" /\ pc = "idle" /\ rc = 0) =>
        /\ Len(lout) = Len(StoredOrder(store))
        /\ Len(lout) >= 1
        /\ \A k \in 1..Len(lout) : ReportDue(k)

\* list issues no write and changes no variable of the store.
ListWritesNothing == (cmd'.op = "list" /\ pc' = "list") => (store' = store /\ nwrites' = 0)

\* C10 (LiveList): on a stored order of N >= 1 IDs list writes exactly one
\* report per position in order, an entry report or an "unreadable" report,
\* goes on after either, ends with return code 0, and writes no variable.
C10_ListReportsEveryPosition ==
    /\ [](ListSoFar /\ ListDone)
    /\ [][ListWritesNothing]_vars
    /\ [][(pc = "list" /\ pc' = "idle") => (li = Len(lids) /\ rc' = 0 /\ store' = store)]_vars
    /\ (pc = "list") ~> (pc = "idle" /\ rc = 0 /\ Len(lout) = Len(lids))

C10_Witness ==
    /\ cmd.op = "list" /\ pc = "idle" /\ rc = 0
    /\ Len(lout) = 3
    /\ lout[1].kind = "unreadable" /\ lout[2].kind = "entry" /\ lout[3].kind = "unreadable"

====
